---- MODULE Spec2Model ----
(***************************************************************************)
(* The aggregate-assembly engine of bpy-geometries: the three builders     *)
(* Aggregate (exact touch), AggregateIntersecting (overlapping contact)    *)
(* and HexagonalBulletRosette (axis-overlap avoidance).                    *)
(*                                                                         *)
(* One build is a record `run`; every operation of the code is an          *)
(* operator from a build record (and the values the Blender kernel, the    *)
(* monomer factory and the random source hand back) to the next record.    *)
(* An optional Python value is a sequence: <<>> is None, <<v>> is v.       *)
(* `twin` is a second build, run in step with the first where two builds   *)
(* are compared; `ledger` is the number of intersection tests made since   *)
(* construction, kept where the cost of a whole build is counted.          *)
(***************************************************************************)
EXTENDS Integers, Sequences, FiniteSets, TLC

VARIABLES run, twin, ledger

vars == <<run, twin, ledger>>

(* ------------------------------ bounds -------------------------------- *)

MaxMonomers == 3
MaxDiameter == 3
MaxSeed == 0
MaxSearchSteps == 2
MaxRetries == 2
MaxBullets == 3
MaxHeight == 1
MaxQuarterTurn == 1
MaxTouchHeight == 2
MaxBeyond == 64
MaxDepth == 2

None == <<>>
Some(v) == <<v>>
IsNone(x) == x = <<>>
Val(x) == x[1]

AggregateBuilders == {"Aggregate", "AggregateIntersecting"}
Builders == AggregateBuilders \cup {"HexagonalBulletRosette"}

(* ------------------------- constructor arguments ---------------------- *)

NumMonomersArgs == {None} \cup {Some(n) : n \in 0..MaxMonomers}
TargetDiameterArgs == {None} \cup {Some(d) : d \in 1..MaxDiameter}
SeedArgs == {None} \cup {Some(s) : s \in 0..MaxSeed}

\* radius and length of a rosette bullet: a thin column and a fat one
\* (radius/length above sin(45 degrees), so even perpendicular axes overlap)
BulletShapes == {[radius |-> 1, length |-> 4], [radius |-> 3, length |-> 4]}

AggregateArgs ==
  [builder : {"Aggregate"},
   num_monomers : NumMonomersArgs,
   target_diameter : TargetDiameterArgs,
   seed : {None},
   binary_search_steps : {0},
   max_retries : {0},
   num_bullets : {0},
   shape : {[radius |-> 0, length |-> 0]}]

IntersectingArgs ==
  [builder : {"AggregateIntersecting"},
   num_monomers : NumMonomersArgs,
   target_diameter : TargetDiameterArgs,
   seed : SeedArgs,
   binary_search_steps : 0..MaxSearchSteps,
   max_retries : 0..MaxRetries,
   num_bullets : {0},
   shape : {[radius |-> 0, length |-> 0]}]

RosetteArgs ==
  [builder : {"HexagonalBulletRosette"},
   num_monomers : {None},
   target_diameter : {None},
   seed : {None},
   binary_search_steps : {0},
   max_retries : {0},
   num_bullets : 0..MaxBullets,
   shape : BulletShapes]

Args == AggregateArgs \cup IntersectingArgs \cup RosetteArgs

(* ----------------------------- random source -------------------------- *)

\* numpy's Generator is a deterministic stream: a state, an update, an output.
\* The stream is modelled by a full-period congruential generator on 0..3;
\* an output is a uniform in quarters (u = Uniform(st)/4, in [0,1)).
RngStates == 0..3
RngNext(st) == (5 * st + 3) % 4
Uniform(st) == st % 4

\* np.random.default_rng(seed): the seed fixes the stream, None takes the
\* state from the operating system's entropy.
SeedRngFromEntropy(seed, entropy) == entropy
SeedRng(seed, entropy) ==
  IF IsNone(seed) THEN entropy ELSE (3 * Val(seed) + 1) % 4

\* 1000 * sqrt(q/4), 1000 * sin(2 pi q/4) / 1000 and cos, on quarters
SqrtMilli(q) ==
  CASE q = 0 -> 0 [] q = 1 -> 500 [] q = 2 -> 707 [] q = 3 -> 866 [] q = 4 -> 1000
SinTurn(q) == CASE q = 0 -> 0 [] q = 1 -> 1 [] q = 2 -> 0 [] q = 3 -> -1
CosTurn(q) == CASE q = 0 -> 1 [] q = 1 -> 0 [] q = 2 -> -1 [] q = 3 -> 0

\* _random_quaternion: three uniforms, then the subgroup algorithm; the
\* result is the new generator state and (w, x, y, z) in thousandths.
RandomQuaternion(st) ==
  LET s1 == RngNext(st)
      s2 == RngNext(s1)
      s3 == RngNext(s2)
      u1 == Uniform(s1)
      u2 == Uniform(s2)
      u3 == Uniform(s3)
  IN  [state |-> s3,
       quat |-> << SqrtMilli(4 - u1) * SinTurn(u2),
                   SqrtMilli(4 - u1) * CosTurn(u2),
                   SqrtMilli(u1) * SinTurn(u3),
                   SqrtMilli(u1) * CosTurn(u3) >>]

(* --------------------- what the environment hands back ---------------- *)

\* What applying the boolean UNION modifier does: it fuses the source into
\* the target, leaves the target's mesh as it was, or raises.
UnionOutcomes == {"fused", "unchanged", "raises"}
\* Bounding-box measurements of the current solids.
Diameters == 1..MaxDiameter
Heights == 1..MaxHeight
\* One draw of three Euler angles from the global random module, in
\* quarter turns.
QuarterTurns == 0..MaxQuarterTurn
EulerAngles == QuarterTurns \X QuarterTurns \X QuarterTurns

\* num_steps of _translate_until_touching; lengths are held in units of
\* 1/2^NumSteps so that every halved step is an integer
NumSteps == 10
RECURSIVE Pow2(_)
Pow2(n) == IF n = 0 THEN 1 ELSE 2 * Pow2(n - 1)
Scale == Pow2(NumSteps)

(* ------------------------------ one build ----------------------------- *)

NewRun(a) ==
  [pc |-> "new",
   args |-> a,
   error |-> "none",
   rng |-> 0,
   draws |-> <<>>,
   factory_calls |-> 0,
   scene_touched |-> FALSE,
   aggregate |-> None,
   monomer |-> None,
   monomer_count |-> 0,
   i |-> 0,
   merges |-> 0,
   parts |-> {},
   union_failed |-> FALSE,
   retry |-> 0,
   step |-> 0,
   success |-> None,
   search_start |-> 0,
   z |-> 0,
   monomer_bb |-> 0,
   aggregate_bb |-> 0,
   agg_z_max |-> 0,
   step_size |-> 0,
   probes |-> <<>>,
   rotation_angles |-> None,
   contact |-> None,
   measured |-> None,
   before_merge |-> None,
   existing_columns |-> <<>>,
   bullets_created |-> 0,
   attempt |-> 0,
   skipped |-> 0,
   exported |-> FALSE,
   live |-> {},
   deleted |-> {},
   modifiers |-> [monomer |-> <<>>, aggregate |-> <<>>],
   tests |-> 0,
   cycle |-> <<>>,
   last_cycle |-> <<>>,
   uuid |-> "",
   filename |-> None]

\* raise: the exception leaves generate(), nothing after the raise runs
Raise(s, exc) == [s EXCEPT !.pc = "raised", !.error = exc]

\* a constructor that forgets the check for both arguments being given
ConstructWithoutBothCheck(s0, entropy, uuid) ==
  LET s == [s0 EXCEPT !.uuid = uuid]
      a == s.args
  IN
  IF a.builder \in AggregateBuilders
     /\ IsNone(a.num_monomers) /\ IsNone(a.target_diameter)
  THEN Raise(s, "ValueError")
  ELSE [s EXCEPT !.pc = "constructed",
                 !.rng = IF a.builder = "AggregateIntersecting"
                         THEN SeedRng(a.seed, entropy) ELSE 0]

\* Aggregate.__init__ / AggregateIntersecting.__init__ /
\* HexagonalBulletRosette.__init__; Geometry.__init__ runs first and sets
\* the instance's token (uuid4().hex[:8])
DoConstruct(s0, entropy, uuid) ==
  LET s == [s0 EXCEPT !.uuid = uuid]
      a == s.args
  IN
  IF a.builder \in AggregateBuilders
     /\ IsNone(a.num_monomers) /\ IsNone(a.target_diameter)
  THEN Raise(s, "ValueError")
  ELSE IF a.builder \in AggregateBuilders
          /\ ~IsNone(a.num_monomers) /\ ~IsNone(a.target_diameter)
  THEN Raise(s, "ValueError")
  ELSE [s EXCEPT !.pc = "constructed",
                 !.rng = IF a.builder = "AggregateIntersecting"
                         THEN SeedRng(a.seed, entropy) ELSE 0]

FixedCount(s) == ~IsNone(s.args.num_monomers)

\* the events of the cycle of the current monomer, in the order they happen
LogEvent(s, event) == [s EXCEPT !.cycle = Append(@, event)]

\* Geometry._clear_scene, the first statement of generate()
ClearScene(s) == [s EXCEPT !.scene_touched = TRUE, !.live = {}, !.pc = "loop"]

\* self.geometry._create_geometry(): the factory returns a fresh monomer at
\* the origin; monomers are numbered in the order they are made
CreateMonomer(s) ==
  [s EXCEPT !.factory_calls = @ + 1,
            !.monomer = Some(s.factory_calls),
            !.live = @ \cup {s.factory_calls},
            !.scene_touched = TRUE,
            !.z = 0,
            !.last_cycle = s.cycle,
            !.cycle = <<"factory">>]

\* aggregate = monomer: the first monomer becomes the aggregate
Promote(s) ==
  [s EXCEPT !.aggregate = s.monomer,
            !.parts = {Val(s.monomer)},
            !.monomer = None,
            !.cycle = Append(@, "promote")]

\* modifier_add / modifier_remove on one of the two solids
AddModifier(s, obj, operation) ==
  [s EXCEPT !.modifiers[obj] = Append(@, operation)]
RemoveModifier(s, obj) ==
  [s EXCEPT !.modifiers[obj] = SubSeq(@, 1, Len(@) - 1)]

\* a test that leaves its modifier on the monomer
CheckIntersectionKeepsModifier(s) ==
  [AddModifier(s, "monomer", "INTERSECT") EXCEPT !.tests = @ + 1]

\* _check_intersection(monomer, aggregate): an INTERSECT modifier is added
\* to the monomer, the evaluated mesh is looked at, the modifier is
\* removed; `tests` counts the calls of the current search. What the
\* evaluated mesh shows is the kernel's answer, an input of the step.
CheckIntersection(s) ==
  [RemoveModifier(AddModifier(s, "monomer", "INTERSECT"), "monomer")
     EXCEPT !.tests = @ + 1]

\* a merge that leaves the source in the scene
MergeObjectsKeepSource(s, union) ==
  [s EXCEPT !.merges = @ + 1,
            !.cycle = Append(@, "merge"),
            !.parts = @ \cup {Val(s.monomer)},
            !.union_failed = @ \/ union # "fused",
            !.monomer = None,
            !.z = 0,
            !.monomer_bb = 0,
            !.aggregate_bb = 0,
            !.step = 0,
            !.tests = 0]

\* modifier_apply raised inside _merge_objects: the UNION modifier stays
\* on the target and the source is not deleted
UnionRaised(s) ==
  Raise([AddModifier(s, "aggregate", "UNION") EXCEPT !.union_failed = TRUE],
        "KernelError")

\* _merge_objects, after modifier_apply returned: the source is deleted and
\* the target stays the aggregate. `parts` is the provenance (the first
\* monomer and every solid handed to a completed merge); union_failed
\* remembers a union that did not fuse the source into the mesh.
MergeObjects(s, union) ==
  [s EXCEPT !.merges = @ + 1,
            !.parts = @ \cup {Val(s.monomer)},
            !.union_failed = @ \/ union # "fused",
            !.monomer = None,
            !.live = @ \ {Val(s.monomer)},
            !.deleted = @ \cup {Val(s.monomer)},
            !.cycle = Append(@, "merge"),
            !.z = 0,
            !.monomer_bb = 0,
            !.aggregate_bb = 0,
            !.step = 0,
            !.tests = 0]

(* ------------------------ Aggregate (exact touch) --------------------- *)

\* _apply_random_rotation + transform_apply(rotation): three uniforms from
\* the global random module set the Euler angles, which are baked into the
\* mesh at once; the angles act only through the geometry the kernel sees.
ApplyRandomRotation(s) ==
  [s EXCEPT !.draws = Append(@, [obj |-> "aggregate", id |-> 0, quat |-> <<>>]),
            !.cycle = Append(@, "sample")]

\* _translate_until_touching, up to the loop: the two z-heights are
\* measured and the monomer is lifted by half their sum
StartTouching(s, mh, ah) ==
  [s EXCEPT !.monomer_bb = mh,
            !.aggregate_bb = ah,
            !.z = @ + ((ah + mh) * Scale) \div 2,
            !.step = 0,
            !.cycle = Append(@, "search"),
            !.pc = "touch"]

\* a search that moves down on a hit and up otherwise
TouchStepReversed(s, hit) ==
  LET step_size == (s.monomer_bb * Scale) \div Pow2(s.step) IN
  [CheckIntersection(s) EXCEPT !.z = IF hit THEN @ - step_size ELSE @ + step_size,
                               !.step = @ + 1]

\* a search whose step is never halved
TouchStepNotHalved(s, hit) ==
  LET step_size == s.monomer_bb * Scale IN
  [CheckIntersection(s) EXCEPT !.z = IF hit THEN @ + step_size ELSE @ - step_size,
            !.step = @ + 1]

\* a search that ends at the first test without an intersection
TouchStepUntilClear(s, hit) ==
  LET step_size == (s.monomer_bb * Scale) \div Pow2(s.step) IN
  IF hit
  THEN [CheckIntersection(s) EXCEPT !.z = @ + step_size, !.step = @ + 1]
  ELSE [CheckIntersection(s) EXCEPT !.step = NumSteps]

\* one iteration of the loop of _translate_until_touching
TouchStep(s, hit) ==
  LET step_size == (s.monomer_bb * Scale) \div Pow2(s.step) IN
  [CheckIntersection(s) EXCEPT !.z = IF hit THEN @ + step_size ELSE @ - step_size,
            !.step = @ + 1]

\* the search returned: transform_apply(location=True) bakes the monomer's
\* location into its mesh and resets the location to the origin
ApplyLocation(s) ==
  [s EXCEPT !.z = 0, !.monomer_bb = 0, !.aggregate_bb = 0, !.step = 0,
            !.tests = 0, !.pc = "merge"]

\* an iteration that goes from the rotation straight to the merge
AggregateIterateNoSearch(s, mh, ah) ==
  LET m == CreateMonomer(s) IN
  IF IsNone(s.aggregate)
  THEN [Promote(m) EXCEPT !.i = @ + 1]
  ELSE [ApplyRandomRotation(m) EXCEPT !.pc = "merge"]

\* one iteration of the loop of Aggregate._create_geometry up to the search
AggregateIterate(s, mh, ah) ==
  LET m == CreateMonomer(s) IN
  IF IsNone(s.aggregate)
  THEN [Promote(m) EXCEPT !.i = @ + 1]
  ELSE StartTouching(ApplyRandomRotation(m), mh, ah)

\* a loop that runs once more than asked
AggregateLoopInclusive(s, mh, ah) ==
  LET h == IF FixedCount(s) THEN LogEvent(s, "check") ELSE s IN
  IF FixedCount(s) /\ ~(s.i <= Val(s.args.num_monomers))
  THEN [h EXCEPT !.pc = "built"]
  ELSE AggregateIterate(h, mh, ah)

\* the head of the loop: for i in range(num_monomers) / while True; the
\* range is the termination check of a fixed-count build
AggregateLoop(s, mh, ah) ==
  LET h == IF FixedCount(s) THEN LogEvent(s, "check") ELSE s IN
  IF FixedCount(s) /\ ~(s.i < Val(s.args.num_monomers))
  THEN [h EXCEPT !.pc = "built"]
  ELSE AggregateIterate(h, mh, ah)

\* the merge that ends an iteration and, for a target diameter, the check
\* after it. `now` is the planar diameter the aggregate has when the merge
\* starts: it is recorded as the diameter before the merge when the code
\* has taken no measurement yet.
AggregateMerge(s, union, now, d) ==
  IF union = "raises"
  THEN UnionRaised(s)
  ELSE LET m == [MergeObjects(s, union) EXCEPT
                   !.i = @ + 1,
                   !.before_merge = IF IsNone(s.measured) THEN Some(now)
                                    ELSE s.measured]
       IN  IF FixedCount(s)
           THEN [m EXCEPT !.pc = "loop"]
           ELSE [m EXCEPT !.measured = Some(d),
                          !.cycle = Append(@, "check"),
                          !.pc = IF d >= Val(s.args.target_diameter)
                                 THEN "built" ELSE "loop"]

(* ---------------- AggregateIntersecting (overlapping contact) --------- *)

\* one call of _random_quaternion, set on obj and applied
SampleOrientation(s, obj, id) ==
  LET r == RandomQuaternion(s.rng) IN
  [s EXCEPT !.rng = r.state,
            !.draws = Append(@, [obj |-> obj, id |-> id, quat |-> r.quat]),
            !.cycle = Append(@, "sample")]

\* a loop condition that is off by one
ShouldContinueOffByOne(s, d) ==
  IF FixedCount(s)
  THEN s.monomer_count <= Val(s.args.num_monomers)
  ELSE IF IsNone(s.aggregate) THEN TRUE
       ELSE d <= Val(s.args.target_diameter)

\* a condition that never ends a build to a target diameter
ShouldContinueForever(s, d) ==
  IF FixedCount(s)
  THEN s.monomer_count < Val(s.args.num_monomers)
  ELSE TRUE

\* should_continue; d is what _get_max_planar_diameter returns
ShouldContinue(s, d) ==
  IF FixedCount(s)
  THEN s.monomer_count < Val(s.args.num_monomers)
  ELSE IF IsNone(s.aggregate) THEN TRUE
       ELSE d < Val(s.args.target_diameter)

\* a caller that ignores the result of the search
AfterSearchUnchecked(s) == [s EXCEPT !.pc = "merge"]

\* the search returned: a failure raises; after a success the location is
\* applied and the monomer merged (IntersectingMerge)
AfterSearch(s) ==
  IF ~Val(s.success)
  THEN Raise(s, "RuntimeError")
  ELSE [s EXCEPT !.pc = "merge"]

\* one pass of `while should_continue()` up to the search
IntersectingLoop(s, d) ==
  LET s0 == LogEvent(s, "check")
      s1 == IF ~FixedCount(s) /\ ~IsNone(s.aggregate)
            THEN [s0 EXCEPT !.measured = Some(d)] ELSE s0
  IN  IF ~ShouldContinue(s, d)
      THEN [s1 EXCEPT !.pc = "built"]
      ELSE LET m == CreateMonomer(s1) IN
           IF IsNone(s.aggregate)
           THEN [Promote(m) EXCEPT !.monomer_count = @ + 1]
           ELSE LET q1 == SampleOrientation(m, "monomer", Val(m.monomer))
                    q2 == SampleOrientation(q1, "aggregate", 0)
                IN  [q2 EXCEPT !.pc = "search",
                               !.cycle = Append(@, "search"),
                               !.retry = 0,
                               !.tests = 0,
                               !.success = None,
                               !.search_start = Len(q2.draws)]

\* a descent whose first step is the aggregate's height alone
PlaceAboveShortStep(s, mh, zmin, ah) ==
  [s EXCEPT !.monomer_bb = mh,
            !.aggregate_bb = ah,
            !.agg_z_max = zmin + ah * Scale,
            !.z = zmin + ah * Scale + mh * Scale,
            !.step_size = ah * Scale,
            !.probes = <<>>,
            !.step = 0,
            !.pc = "descend"]

\* One descent begins. The monomer's height mh and the aggregate's lowest
\* point zmin and height ah are what _get_bounding_box_z_extent measures
\* (min, max, max - min); the monomer is set to max + mh and the first step
\* is ah + mh.
PlaceAbove(s, mh, zmin, ah) ==
  [s EXCEPT !.monomer_bb = mh,
            !.aggregate_bb = ah,
            !.agg_z_max = zmin + ah * Scale,
            !.z = zmin + ah * Scale + mh * Scale,
            !.step_size = ah * Scale + mh * Scale,
            !.probes = <<>>,
            !.step = 0,
            !.pc = "descend"]

\* a retry loop that makes one descent more than max_retries
SearchAttemptInclusive(s, mh, zmin, ah) ==
  IF s.retry <= s.args.max_retries
  THEN PlaceAbove(s, mh, zmin, ah)
  ELSE AfterSearch([s EXCEPT !.success = Some(FALSE)])

\* a retry loop that makes its first descent whatever max_retries is
SearchAttemptAtLeastOnce(s, mh, zmin, ah) ==
  IF s.retry < s.args.max_retries \/ s.retry = 0
  THEN PlaceAbove(s, mh, zmin, ah)
  ELSE AfterSearch([s EXCEPT !.success = Some(FALSE)])

\* the head of `for retry in range(self.max_retries)`: another descent
\* from above the re-measured aggregate, or return False
SearchAttempt(s, mh, zmin, ah) ==
  IF s.retry < s.args.max_retries
  THEN PlaceAbove(s, mh, zmin, ah)
  ELSE AfterSearch([s EXCEPT !.success = Some(FALSE)])

\* monomer.location.z -= step_size, then _check_intersection
MoveAndTest(s) ==
  LET z == s.z - s.step_size IN
  [CheckIntersection(s) EXCEPT !.z = z, !.probes = Append(@, z)]

\* a miss: step_size = step_size / 2
Halve(s) == [s EXCEPT !.step_size = @ \div 2, !.step = @ + 1]

\* a probe that re-rotates the aggregate once more when it has hit
ProbeThenRotate(s, hit) ==
  LET t == MoveAndTest(s) IN
  IF hit
  THEN AfterSearch([SampleOrientation(t, "aggregate", 0) EXCEPT !.success = Some(TRUE)])
  ELSE Halve(t)

\* a probe that tests once more after it has hit
ProbeAgain(s, hit) ==
  LET t == MoveAndTest(s) IN
  IF hit
  THEN AfterSearch([CheckIntersection(t) EXCEPT !.success = Some(TRUE)])
  ELSE Halve(t)

\* a probe that halves the step before it moves the monomer
ProbeHalvesFirst(s, hit) ==
  LET t == MoveAndTest([s EXCEPT !.step_size = @ \div 2]) IN
  IF hit
  THEN AfterSearch([t EXCEPT !.success = Some(TRUE)])
  ELSE [t EXCEPT !.step = @ + 1]

\* one iteration of `for _ in range(self.binary_search_steps)`: the monomer
\* is moved down, then tested; a hit returns True at once, a miss halves
\* the step
Probe(s, hit) ==
  LET t == MoveAndTest(s) IN
  IF hit
  THEN AfterSearch([t EXCEPT !.success = Some(TRUE)])
  ELSE Halve(t)

\* a retry that does not count itself
RerotateUncounted(s) ==
  [SampleOrientation(s, "aggregate", 0) EXCEPT
     !.cycle = Append(s.cycle, "rerotate"), !.retry = 0, !.pc = "search"]

\* a retry that gives the monomer a new orientation as well
RerotateBoth(s) ==
  [SampleOrientation(SampleOrientation(s, "aggregate", 0), "monomer", Val(s.monomer))
     EXCEPT !.cycle = Append(s.cycle, "rerotate"), !.retry = @ + 1, !.pc = "search"]

\* no intersection in this descent: re-rotate the aggregate and retry
Rerotate(s) ==
  [SampleOrientation(s, "aggregate", 0) EXCEPT
     !.cycle = Append(s.cycle, "rerotate"), !.retry = @ + 1, !.pc = "search"]

\* self._apply_location(monomer); aggregate = self._merge_objects(aggregate,
\* monomer); monomer_count += 1
IntersectingMerge(s, union) ==
  IF union = "raises"
  THEN UnionRaised(s)
  ELSE [MergeObjects(s, union) EXCEPT
          !.monomer_count = @ + 1,
          !.agg_z_max = 0,
          !.step_size = 0,
          !.probes = <<>>,
          !.before_merge = s.measured,
          !.pc = "loop"]

\* the lowest point of a solid of height h that is centred on the origin
Centred(h) == 0 - (h * Scale) \div 2

(* --------------- HexagonalBulletRosette (axis-overlap avoidance) ------ *)

\* max_attempts of _find_non_overlapping_rotation
MaxAttempts == 100

\* sine and cosine of q quarter turns
SinQ(q) == CASE q % 4 = 0 -> 0 [] q % 4 = 1 -> 1 [] q % 4 = 2 -> 0 [] q % 4 = 3 -> -1
CosQ(q) == CASE q % 4 = 0 -> 1 [] q % 4 = 1 -> 0 [] q % 4 = 2 -> -1 [] q % 4 = 3 -> 0

\* _compute_column_axis_vector: Euler(angles, "XYZ").to_matrix() @ (0, 0, 1)
ColumnAxisVector(angles) ==
  LET a == angles[1]
      b == angles[2]
      c == angles[3]
  IN  << CosQ(a) * SinQ(b) * CosQ(c) + SinQ(a) * SinQ(c),
         CosQ(a) * SinQ(b) * SinQ(c) - SinQ(a) * CosQ(c),
         CosQ(a) * CosQ(b) >>

Dot(u, v) == u[1] * v[1] + u[2] * v[2] + u[3] * v[3]
Abs(x) == IF x < 0 THEN -x ELSE x
Min(x, y) == IF x < y THEN x ELSE y
Max(x, y) == IF x < y THEN y ELSE x

\* math.acos(abs(dot)) in degrees, for the dot product of two axis-parallel
\* unit vectors; then 1000 * sin(angle / 2)
AcosAbsDegrees(dot) == IF Abs(Max(-1, Min(1, dot))) = 1 THEN 0 ELSE 90
SinHalfMilli(degrees) == IF degrees = 0 THEN 0 ELSE 707

\* _check_column_overlap: sin(angle / 2) < (r1 + r2) / (2 * min(l1, l2)),
\* compared after multiplying both sides by 1000 * 2 * min_length
CheckColumnOverlap(k_new, radius_new, length_new, k_existing, radius_existing, length_existing) ==
  LET angle == AcosAbsDegrees(Dot(k_new, k_existing))
      sum_radii == radius_new + radius_existing
      min_length == Min(length_new, length_existing)
  IN  IF angle > 90 THEN FALSE
      ELSE SinHalfMilli(angle) * 2 * min_length < sum_radii * 1000

\* a check against the first recorded column only
OverlapsFirstOnly(s, angles) ==
  \E n \in 1..Min(1, Len(s.existing_columns)) :
    LET col == s.existing_columns[n] IN
    CheckColumnOverlap(ColumnAxisVector(angles), s.args.shape.radius,
                       s.args.shape.length, col.k, col.radius, col.length)

\* the inner loop of _find_non_overlapping_rotation: does the candidate
\* overlap any column recorded so far
Overlaps(s, angles) ==
  \E n \in 1..Len(s.existing_columns) :
    LET col == s.existing_columns[n] IN
    CheckColumnOverlap(ColumnAxisVector(angles), s.args.shape.radius,
                       s.args.shape.length, col.k, col.radius, col.length)

ColumnRecord(s, angles) ==
  [k |-> ColumnAxisVector(angles),
   radius |-> s.args.shape.radius,
   length |-> s.args.shape.length]

\* _create_geometry up to the loop: the scene is cleared, the first
\* rotation is drawn, the first bullet is made and recorded
RosetteStart(s, angles) ==
  [s EXCEPT !.scene_touched = TRUE,
            !.draws = Append(@, [obj |-> "bullet", id |-> 0, quat |-> <<>>]),
            !.factory_calls = @ + 1,
            !.aggregate = Some(0),
            !.live = {0},
            !.parts = {0},
            !.bullets_created = @ + 1,
            !.existing_columns = Append(@, ColumnRecord(s, angles)),
            !.i = 1,
            !.pc = "bullets"]

\* the head of `for i in range(1, self.num_bullets)`; after the loop the
\* final cleanup returns the aggregate
RosetteLoop(s) ==
  IF s.i < s.args.num_bullets
  THEN [s EXCEPT !.pc = "find", !.attempt = 0]
  ELSE [s EXCEPT !.pc = "built"]

\* the bullet for an accepted rotation is made and recorded before the union
CreateBullet(s, angles) ==
  [s EXCEPT !.factory_calls = @ + 1,
            !.monomer = Some(s.i),
            !.live = @ \cup {s.i},
            !.bullets_created = @ + 1,
            !.existing_columns = Append(@, ColumnRecord(s, angles)),
            !.attempt = 0,
            !.pc = "union"]

\* a search that accepts its last candidate whatever it overlaps
FindDrawAcceptsLast(s, angles) ==
  IF ~Overlaps(s, angles) \/ s.attempt + 1 = MaxAttempts
  THEN [s EXCEPT !.rotation_angles = Some(angles), !.attempt = @ + 1,
                 !.success = Some(TRUE), !.pc = "found"]
  ELSE [s EXCEPT !.rotation_angles = Some(angles), !.attempt = @ + 1]

\* one iteration of `for attempt in range(max_attempts)` of
\* _find_non_overlapping_rotation: a candidate is drawn and tested against
\* every recorded column; one that overlaps none is returned with True
FindDraw(s, angles) ==
  IF ~Overlaps(s, angles)
  THEN [s EXCEPT !.rotation_angles = Some(angles), !.attempt = @ + 1,
                 !.success = Some(TRUE), !.pc = "found"]
  ELSE [s EXCEPT !.rotation_angles = Some(angles), !.attempt = @ + 1]

\* the loop is over: `return rotation_angles, False`, the candidate being
\* the one drawn last
FindExhausted(s) == [s EXCEPT !.success = Some(FALSE), !.pc = "found"]

\* The caller keeps nothing of a search but what it builds from it: the
\* candidate of an attempt that overlapped is read by nobody, and an
\* accepted one lives on in the recorded column.
Forget(s) == [s EXCEPT !.rotation_angles = None, !.success = None]

\* one attempt as a build sees it: on success the caller makes and records
\* the bullet with the rotation returned
FindAttempt(s, angles) ==
  LET r == FindDraw(s, angles) IN
  IF r.success = Some(TRUE)
  THEN Forget(CreateBullet(r, Val(r.rotation_angles)))
  ELSE Forget(r)

\* a caller that makes the bullet although no rotation was found
SkipButCreate(s) ==
  [s EXCEPT !.skipped = @ + 1,
            !.factory_calls = @ + 1,
            !.bullets_created = @ + 1,
            !.i = @ + 1,
            !.attempt = 0,
            !.pc = "bullets"]

\* the attempts are used up: (rotation_angles, False) is returned and the
\* caller skips this bullet
SkipBullet(s) ==
  [Forget(FindExhausted(s)) EXCEPT
            !.skipped = @ + 1,
            !.i = @ + 1,
            !.attempt = 0,
            !.pc = "bullets"]

\* a union that takes back the record of a bullet it could not unite
RosetteUnionForgetsFailed(s, union, lost) ==
  LET failed == union = "raises"
      u == [s EXCEPT !.merges = IF failed THEN @ ELSE @ + 1,
                     !.parts = IF failed THEN @ ELSE @ \cup {Val(s.monomer)},
                     !.union_failed = @ \/ union # "fused",
                     !.bullets_created = IF failed THEN @ - 1 ELSE @,
                     !.existing_columns = IF failed THEN SubSeq(@, 1, Len(@) - 1) ELSE @,
                     !.live = @ \ {Val(s.monomer)},
                     !.deleted = @ \cup {Val(s.monomer)},
                     !.monomer = None]
  IN  IF lost
      THEN [u EXCEPT !.aggregate = None, !.pc = "built"]
      ELSE [u EXCEPT !.i = @ + 1, !.pc = "bullets"]

\* the union of the new bullet into the aggregate, inside try/except; then
\* the bullet is deleted and the aggregate is looked up again by name
RosetteUnion(s, union, lost) ==
  LET u == [s EXCEPT !.merges = IF union = "raises" THEN @ ELSE @ + 1,
                     !.parts = IF union = "raises" THEN @ ELSE @ \cup {Val(s.monomer)},
                     !.union_failed = @ \/ union # "fused",
                     !.live = @ \ {Val(s.monomer)},
                     !.deleted = @ \cup {Val(s.monomer)},
                     !.monomer = None]
  IN  IF lost
      THEN [u EXCEPT !.aggregate = None, !.pc = "built"]
      ELSE [u EXCEPT !.i = @ + 1, !.pc = "bullets"]

\* f"{x:.1f}".replace(".", "p") for a whole number x: the integer part,
\* "p", one decimal
FormatDiameter(x) == <<x, "p", 0>>

\* to_filename of the three builders: the type tag and the parameters; the
\* monomer's own to_filename is the same for every build and left out
ToFilename(s) ==
  LET a == s.args IN
  CASE a.builder = "Aggregate" ->
         [tag |-> "aggregate",
          n |-> a.num_monomers,
          d |-> IF FixedCount(s) THEN None ELSE Some(FormatDiameter(Val(a.target_diameter))),
          s |-> None,
          shape |-> None,
          uuid |-> None]
    [] a.builder = "AggregateIntersecting" ->
         [tag |-> "aggregate_intersecting",
          n |-> a.num_monomers,
          d |-> IF FixedCount(s) THEN None ELSE Some(FormatDiameter(Val(a.target_diameter))),
          s |-> a.seed,
          shape |-> None,
          uuid |-> None]
    [] a.builder = "HexagonalBulletRosette" ->
         [tag |-> "hexagonal_bullet_rosette",
          n |-> Some(a.num_bullets),
          d |-> None,
          s |-> None,
          shape |-> Some(a.shape),
          uuid |-> None]

\* Geometry.get_full_filename: the token is appended
GetFullFilename(s) == [ToFilename(s) EXCEPT !.uuid = Some(s.uuid)]

\* the filename generate() hands to _export_obj
ExportFilename(s) ==
  IF s.args.builder = "HexagonalBulletRosette"
  THEN ToFilename(s)
  ELSE GetFullFilename(s)

\* _export_obj(filename), the last statement of generate()
Export(s) ==
  [s EXCEPT !.exported = TRUE, !.filename = Some(ExportFilename(s)), !.pc = "done"]

(* ------------------------------ actions ------------------------------- *)

IsBuilder(b) == run.args.builder = b

\* in a build to a target diameter the loop has no bound of its own: the
\* model stops a build that would ask for one monomer more
Capped(s) == ~FixedCount(s) /\ s.factory_calls >= MaxMonomers

\* what an earlier build may have left in the scene
Leftover == 0 - 1
Scenes == {{}, {Leftover}}

Init ==
  /\ run \in {[NewRun(a) EXCEPT !.live = scene] : a \in Args, scene \in Scenes}
  /\ twin = NewRun(run.args)
  /\ ledger = 0

\* the tokens uuid4 may hand out; a build on its own gets the first
UuidTokens == {"u1", "u2"}

Construct ==
  /\ run.pc = "new"
  /\ \E entropy \in (IF IsBuilder("AggregateIntersecting") /\ IsNone(run.args.seed)
                     THEN RngStates ELSE {0}) :
       run' = DoConstruct(run, entropy, "u1")
  /\ UNCHANGED <<twin, ledger>>

Generate ==
  /\ run.pc = "constructed"
  /\ run.args.builder \in AggregateBuilders
  /\ run' = ClearScene(run)
  /\ UNCHANGED <<twin, ledger>>

AggregateStep ==
  /\ IsBuilder("Aggregate")
  /\ run.pc = "loop"
  /\ ~Capped(run)
  /\ \E mh \in Heights, ah \in Heights :
       /\ IsNone(run.aggregate) => mh = 1 /\ ah = 1
       /\ run' = AggregateLoop(run, mh, ah)
  /\ UNCHANGED <<twin, ledger>>

Touch ==
  /\ IsBuilder("Aggregate")
  /\ run.pc = "touch"
  /\ run.step < NumSteps
  /\ \E hit \in BOOLEAN : run' = TouchStep(run, hit)
  /\ UNCHANGED <<twin, ledger>>

Place ==
  /\ IsBuilder("Aggregate")
  /\ run.pc = "touch"
  /\ ~(run.step < NumSteps)
  /\ run' = ApplyLocation(run)
  /\ UNCHANGED <<twin, ledger>>

MergeTouching ==
  /\ IsBuilder("Aggregate")
  /\ run.pc = "merge"
  /\ \E union \in UnionOutcomes, now \in Diameters, d \in Diameters :
       /\ (FixedCount(run) \/ ~IsNone(run.measured)) => now = 1
       /\ (FixedCount(run) \/ union = "raises") => d = 1
       /\ run' = AggregateMerge(run, union, now, d)
  /\ UNCHANGED <<twin, ledger>>

IntersectingStep ==
  /\ IsBuilder("AggregateIntersecting")
  /\ run.pc = "loop"
  /\ \E d \in Diameters :
       /\ (FixedCount(run) \/ IsNone(run.aggregate)) => d = 1
       /\ ShouldContinue(run, d) => ~Capped(run)
       /\ run' = IntersectingLoop(run, d)
  /\ UNCHANGED <<twin, ledger>>

\* the head of the retry loop; the measured boxes only set where the
\* descent starts and how far it steps (SpecDescent varies them), so a unit
\* monomer over a unit aggregate centred on the origin stands for all
Search ==
  /\ IsBuilder("AggregateIntersecting")
  /\ run.pc = "search"
  /\ run' = SearchAttempt(run, 1, Centred(1), 1)
  /\ UNCHANGED <<twin, ledger>>

Descend ==
  /\ IsBuilder("AggregateIntersecting")
  /\ run.pc = "descend"
  /\ run.step < run.args.binary_search_steps
  /\ \E hit \in BOOLEAN : run' = Probe(run, hit)
  /\ UNCHANGED <<twin, ledger>>

Retry ==
  /\ IsBuilder("AggregateIntersecting")
  /\ run.pc = "descend"
  /\ ~(run.step < run.args.binary_search_steps)
  /\ run' = Rerotate(run)
  /\ UNCHANGED <<twin, ledger>>

MergeIntersecting ==
  /\ IsBuilder("AggregateIntersecting")
  /\ run.pc = "merge"
  /\ \E union \in UnionOutcomes : run' = IntersectingMerge(run, union)
  /\ UNCHANGED <<twin, ledger>>

GenerateRosette ==
  /\ IsBuilder("HexagonalBulletRosette")
  /\ run.pc = "constructed"
  /\ \E angles \in EulerAngles : run' = RosetteStart(run, angles)
  /\ UNCHANGED <<twin, ledger>>

Bullets ==
  /\ IsBuilder("HexagonalBulletRosette")
  /\ run.pc = "bullets"
  /\ run' = RosetteLoop(run)
  /\ UNCHANGED <<twin, ledger>>

Find ==
  /\ IsBuilder("HexagonalBulletRosette")
  /\ run.pc = "find"
  /\ run.attempt < MaxAttempts
  /\ \E angles \in EulerAngles : run' = FindAttempt(run, angles)
  /\ UNCHANGED <<twin, ledger>>

Skip ==
  /\ IsBuilder("HexagonalBulletRosette")
  /\ run.pc = "find"
  /\ ~(run.attempt < MaxAttempts)
  /\ run' = SkipBullet(run)
  /\ UNCHANGED <<twin, ledger>>

Union ==
  /\ IsBuilder("HexagonalBulletRosette")
  /\ run.pc = "union"
  /\ \E union \in UnionOutcomes, lost \in BOOLEAN : run' = RosetteUnion(run, union, lost)
  /\ UNCHANGED <<twin, ledger>>

ExportObj ==
  /\ run.pc = "built"
  /\ run' = Export(run)
  /\ UNCHANGED <<twin, ledger>>

Next ==
  \/ Construct
  \/ Generate
  \/ AggregateStep
  \/ Touch
  \/ Place
  \/ MergeTouching
  \/ IntersectingStep
  \/ Search
  \/ Descend
  \/ Retry
  \/ MergeIntersecting
  \/ GenerateRosette
  \/ Bullets
  \/ Find
  \/ Skip
  \/ Union
  \/ ExportObj

Spec == Init /\ [][Next]_vars

(* ------------- two builds of AggregateIntersecting side by side ------- *)

\* the next state of one AggregateIntersecting build, given what the
\* environment hands back in this step
IntersectingNext(s, entropy, uuid, d, hit, union) ==
  CASE s.pc = "new" -> DoConstruct(s, entropy, uuid)
    [] s.pc = "constructed" -> ClearScene(s)
    [] s.pc = "loop" ->
         IF Capped(s) /\ ShouldContinue(s, d) THEN s ELSE IntersectingLoop(s, d)
    [] s.pc = "search" -> SearchAttempt(s, 1, Centred(1), 1)
    [] s.pc = "descend" ->
         IF s.step < s.args.binary_search_steps THEN Probe(s, hit) ELSE Rerotate(s)
    [] s.pc = "merge" -> IntersectingMerge(s, union)
    [] s.pc = "built" -> Export(s)
    [] OTHER -> s

\* the values each kind of step can be handed
EntropyFor(s) == IF s.pc = "new" THEN RngStates ELSE {0}
DiameterFor(s) ==
  IF s.pc = "loop" /\ ~FixedCount(s) /\ ~IsNone(s.aggregate) THEN Diameters ELSE {1}
HitFor(s) == IF s.pc = "descend" THEN BOOLEAN ELSE {FALSE}
UnionFor(s) == IF s.pc = "merge" THEN UnionOutcomes ELSE {"fused"}
UuidFor(s) == IF s.pc = "new" THEN UuidTokens ELSE {s.uuid}

\* the two builds are in the same situation: all but their tokens agree
SameSituation(a, b) == [a EXCEPT !.uuid = b.uuid, !.filename = b.filename] = b

\* two builds made with the same arguments, the seed among them
InitTwin ==
  /\ run \in {NewRun(a) : a \in {b \in IntersectingArgs : ~IsNone(b.seed)}}
  /\ twin = run
  /\ ledger = 0

\* Both builds take their next step. The kernel and the factory are
\* deterministic: two builds in the same state (same solids, same
\* orientations, same position in the search) are handed the same
\* measurement, the same test result and the same union. The entropy an
\* unseeded generator starts from and the token of the instance are drawn
\* separately for each build.
TwinStep ==
  /\ run.pc \notin {"done", "raised"} \/ twin.pc \notin {"done", "raised"}
  /\ \E e1 \in EntropyFor(run), e2 \in EntropyFor(twin),
        d1 \in DiameterFor(run), d2 \in DiameterFor(twin),
        h1 \in HitFor(run), h2 \in HitFor(twin),
        u1 \in UnionFor(run), u2 \in UnionFor(twin),
        t1 \in UuidFor(run), t2 \in UuidFor(twin) :
       /\ SameSituation(run, twin) => (d1 = d2 /\ h1 = h2 /\ u1 = u2)
       /\ run' = IntersectingNext(run, e1, t1, d1, h1, u1)
       /\ twin' = IntersectingNext(twin, e2, t2, d2, h2, u2)
  /\ UNCHANGED ledger

NextTwin == TwinStep

SpecTwin == InitTwin /\ [][NextTwin]_vars

(* --------- the exact-touch search against a monotone intersection ----- *)

TwoMonomers ==
  [builder |-> "Aggregate", num_monomers |-> Some(2), target_diameter |-> None,
   seed |-> None, binary_search_steps |-> 0, max_retries |-> 0,
   num_bullets |-> 0, shape |-> [radius |-> 0, length |-> 0]]

\* an Aggregate build at the start of the search for its second monomer
TouchEntry(mh, ah) ==
  AggregateLoop(AggregateLoop(ClearScene(DoConstruct(NewRun(TwoMonomers), 0, "u1")), 1, 1), mh, ah)

\* the highest position at which the monomer still intersects the
\* aggregate lies `gap` below the position where the bounding boxes touch
InitTouch ==
  /\ \E mh \in 1..MaxTouchHeight, ah \in 1..MaxTouchHeight :
       \E gap \in 0..(2 * mh * Scale + MaxBeyond) :
         run = [TouchEntry(mh, ah) EXCEPT !.contact = Some(TouchEntry(mh, ah).z - gap)]
  /\ twin = run
  /\ ledger = 0

\* _check_intersection is true exactly when the monomer is below the contact
TouchMonotone ==
  /\ run.pc = "touch"
  /\ run.step < NumSteps
  /\ run' = TouchStep(run, run.z < Val(run.contact))
  /\ UNCHANGED <<twin, ledger>>

NextTouch ==
  \/ TouchMonotone
  \/ Place

SpecTouch == InitTouch /\ [][NextTouch]_vars

(* ------ the overlapping-contact search over measured bounding boxes --- *)

\* fixed-count builds of two monomers, every search parameter
DescentArgs ==
  {a \in IntersectingArgs : a.num_monomers = Some(2) /\ a.seed = Some(0)}

\* an AggregateIntersecting build at the start of the search for its second
\* monomer
DescentEntry(a) ==
  IntersectingLoop(IntersectingLoop(ClearScene(DoConstruct(NewRun(a), 0, "u1")), 1), 1)

\* the lowest points the rotated aggregate can be measured at, in half units
Floors == {(k * Scale) \div 2 : k \in (0 - MaxDepth)..MaxDepth}

InitDescent ==
  /\ run \in {DescentEntry(a) : a \in DescentArgs}
  /\ twin = run
  /\ ledger = 0

\* the head of the retry loop, the bounding boxes measured anew
SearchMeasured ==
  /\ run.pc = "search"
  /\ \E mh \in 1..MaxTouchHeight, ah \in 1..MaxTouchHeight, zmin \in Floors :
       run' = SearchAttempt(run, mh, zmin, ah)
  /\ UNCHANGED <<twin, ledger>>

NextDescent ==
  \/ SearchMeasured
  \/ Descend
  \/ Retry
  \/ MergeIntersecting
  \/ IntersectingStep
  \/ ExportObj

SpecDescent == InitDescent /\ [][NextDescent]_vars

(* ---------- the rosette's search for a rotation, as a function -------- *)

\* the lists of recorded columns the search is called with: none, or one
FindColumns ==
  {<<>>} \cup {<<[k |-> ColumnAxisVector(angles), radius |-> shape.radius,
                  length |-> shape.length]>> : angles \in EulerAngles, shape \in BulletShapes}

\* a rosette at the call of _find_non_overlapping_rotation
FindEntry(a, columns) ==
  [RosetteLoop(RosetteStart(DoConstruct(NewRun(a), 0, "u1"), <<0, 0, 0>>))
     EXCEPT !.existing_columns = columns]

InitFind ==
  /\ run \in {FindEntry(a, columns) :
                a \in {b \in RosetteArgs : b.num_bullets = 2}, columns \in FindColumns}
  /\ twin = run
  /\ ledger = 0

\* a candidate is drawn
Draw ==
  /\ run.pc = "find"
  /\ run.attempt < MaxAttempts
  /\ \E angles \in EulerAngles : run' = FindDraw(run, angles)
  /\ UNCHANGED <<twin, ledger>>

\* the attempts are used up
GiveUp ==
  /\ run.pc = "find"
  /\ ~(run.attempt < MaxAttempts)
  /\ run' = FindExhausted(run)
  /\ UNCHANGED <<twin, ledger>>

NextFind ==
  \/ Draw
  \/ GiveUp

SpecFind == InitFind /\ [][NextFind]_vars

(* --------- builds of a fixed count, their intersection tests counted -- *)

\* the builds of a fixed number of monomers; one seed, since the stream has
\* no part in what is counted
FixedArgs ==
  {b \in AggregateArgs \cup IntersectingArgs :
     /\ ~IsNone(b.num_monomers)
     /\ IsNone(b.target_diameter)
     /\ b.builder = "AggregateIntersecting" => b.seed = Some(0)}

InitFixed ==
  /\ run \in {NewRun(a) : a \in FixedArgs}
  /\ twin = run
  /\ ledger = 0

\* Aggregate: the loop head, with unit heights
AggregateStepFixed ==
  /\ IsBuilder("Aggregate")
  /\ run.pc = "loop"
  /\ run' = AggregateLoop(run, 1, 1)
  /\ UNCHANGED <<twin, ledger>>

\* Aggregate: one iteration of the search, its call of _check_intersection
\* entered in the ledger
TouchCounted ==
  /\ IsBuilder("Aggregate")
  /\ run.pc = "touch"
  /\ run.step < NumSteps
  /\ \E hit \in BOOLEAN :
       /\ run' = TouchStep(run, hit)
       /\ ledger' = ledger + (TouchStep(run, hit).tests - run.tests)
  /\ UNCHANGED twin

\* AggregateIntersecting: one probe, its call of _check_intersection
\* entered in the ledger
DescendCounted ==
  /\ IsBuilder("AggregateIntersecting")
  /\ run.pc = "descend"
  /\ run.step < run.args.binary_search_steps
  /\ \E hit \in BOOLEAN :
       /\ run' = Probe(run, hit)
       /\ ledger' = ledger + (Probe(run, hit).tests - run.tests)
  /\ UNCHANGED twin

NextFixed ==
  \/ Construct
  \/ Generate
  \/ AggregateStepFixed
  \/ TouchCounted
  \/ Place
  \/ MergeTouching
  \/ IntersectingStep
  \/ Search
  \/ DescendCounted
  \/ Retry
  \/ MergeIntersecting
  \/ ExportObj

\* generate() runs to its end: a step that can be taken is taken
SpecFixed == InitFixed /\ [][NextFixed]_vars /\ WF_vars(NextFixed)

(* ------- builds to a target diameter whose aggregate keeps growing ---- *)

\* the planar diameters an aggregate can have after a merge when it had
\* `before`: every merge adds at least one unit
GrownDiameters(before) == {d \in 1..(MaxDiameter + 1) : d > before}

\* the builds to a target diameter; of the search parameters the extremes,
\* and one seed, since the stream has no part in the loop's condition
GrowArgs ==
  {b \in AggregateArgs \cup IntersectingArgs :
     /\ IsNone(b.num_monomers)
     /\ ~IsNone(b.target_diameter)
     /\ b.builder = "AggregateIntersecting" =>
          /\ b.seed = Some(0)
          /\ b.binary_search_steps \in {0, MaxSearchSteps}
          /\ b.max_retries \in {0, MaxRetries}}

InitGrow ==
  /\ run \in {NewRun(a) : a \in GrowArgs}
  /\ twin = run
  /\ ledger = 0

\* Aggregate: the loop head; the z-heights only set where the search
\* starts and how far it steps, so unit heights stand for all
AggregateStepGrowing ==
  /\ IsBuilder("Aggregate")
  /\ run.pc = "loop"
  /\ ~Capped(run)
  /\ run' = AggregateLoop(run, 1, 1)
  /\ UNCHANGED <<twin, ledger>>

\* Aggregate: the diameter after the merge is larger than the one before it
MergeTouchingGrowing ==
  /\ IsBuilder("Aggregate")
  /\ run.pc = "merge"
  /\ \E union \in UnionOutcomes, now \in Diameters :
       /\ ~IsNone(run.measured) => now = Val(run.measured)
       /\ \E d \in GrownDiameters(now) :
            /\ union = "raises" => d = now + 1
            /\ run' = AggregateMerge(run, union, now, d)
  /\ UNCHANGED <<twin, ledger>>

\* AggregateIntersecting: the diameter measured at the head of the loop is
\* larger than the one measured before the last merge
IntersectingStepGrowing ==
  /\ IsBuilder("AggregateIntersecting")
  /\ run.pc = "loop"
  /\ \E d \in (IF IsNone(run.aggregate) THEN {1}
               ELSE IF IsNone(run.measured) THEN Diameters
               ELSE GrownDiameters(Val(run.measured))) :
       /\ ShouldContinue(run, d) => ~Capped(run)
       /\ run' = IntersectingLoop(run, d)
  /\ UNCHANGED <<twin, ledger>>

NextGrow ==
  \/ Construct
  \/ Generate
  \/ AggregateStepGrowing
  \/ Touch
  \/ Place
  \/ MergeTouchingGrowing
  \/ IntersectingStepGrowing
  \/ Search
  \/ Descend
  \/ Retry
  \/ MergeIntersecting
  \/ ExportObj

\* generate() runs to its end: a step that can be taken is taken
SpecGrow == InitGrow /\ [][NextGrow]_vars /\ WF_vars(NextGrow)

(* ------------------------------ claims -------------------------------- *)

Target(s) == Val(s.args.target_diameter)
Count(s) == Val(s.args.num_monomers)
Finished(s) == s.pc \in {"built", "done"}

\* C1: an Aggregate or AggregateIntersecting given both or neither of
\* num_monomers and target_diameter raises ValueError in its constructor
\* with no monomer requested, no orientation sampled and the scene
\* untouched; given exactly one of them the constructor succeeds.
C1_ConfigValidated ==
  (run.args.builder \in AggregateBuilders /\ run.pc # "new") =>
    IF IsNone(run.args.num_monomers) = IsNone(run.args.target_diameter)
    THEN /\ run.pc = "raised"
         /\ run.error = "ValueError"
         /\ run.factory_calls = 0
         /\ run.draws = <<>>
         /\ ~run.scene_touched
    ELSE run.error # "ValueError"

C1_Witness ==
  /\ run.args.builder = "AggregateIntersecting"
  /\ run.pc = "raised"
  /\ run.error = "ValueError"
  /\ ~IsNone(run.args.num_monomers)
  /\ ~IsNone(run.args.target_diameter)

\* C2: a build for a fixed count n >= 1 that returns its aggregate has
\* called the factory n times and merged n - 1 times, and the aggregate is
\* made of the monomers 0..n-1; after every completed iteration of the
\* loop the number of merges is the number of monomers made minus one.
C2_FixedCount ==
  (run.args.builder \in AggregateBuilders /\ FixedCount(run) /\ Count(run) >= 1) =>
    /\ Finished(run) =>
         /\ run.factory_calls = Count(run)
         /\ run.merges = Count(run) - 1
         /\ run.parts = 0..(Count(run) - 1)
    /\ (run.pc = "loop" /\ run.factory_calls >= 1) =>
         run.merges = run.factory_calls - 1

C2_Witness ==
  /\ run.args.builder = "AggregateIntersecting"
  /\ FixedCount(run)
  /\ run.pc = "done"
  /\ run.merges = 2
  /\ run.parts = {0, 1, 2}

\* C3: when the contact search of AggregateIntersecting returns False the
\* build ends in a RuntimeError: the monomer of that search is not merged,
\* nothing was exported, and no step of the build follows (no factory
\* call, no merge, no export).
C3_SearchExhausted ==
  (run.args.builder = "AggregateIntersecting" /\ run.success = Some(FALSE)) =>
    /\ run.pc = "raised"
    /\ run.error = "RuntimeError"
    /\ ~run.exported
    /\ ~IsNone(run.monomer)
    /\ Val(run.monomer) \notin run.parts
    /\ run.merges = run.monomer_count - 1
    /\ run.factory_calls = run.monomer_count + 1
    /\ ~ENABLED Next

C3_Witness ==
  /\ run.args.builder = "AggregateIntersecting"
  /\ run.success = Some(FALSE)
  /\ run.pc = "raised"
  /\ run.args.max_retries >= 2
  /\ run.args.binary_search_steps >= 1
  /\ run.retry = run.args.max_retries
  /\ run.merges = 1

\* the orientations sampled since the current search began
SearchDraws(s) == SubSeq(s.draws, s.search_start + 1, Len(s.draws))

\* C4: when the search of AggregateIntersecting finds an intersection in
\* attempt k (the loop variable retry is k - 1), the aggregate has been
\* re-oriented inside that search exactly k - 1 times, and nothing else
\* was sampled inside it.
C4_RetriesRerotate ==
  (run.args.builder = "AggregateIntersecting" /\ run.pc = "merge") =>
    /\ run.success = Some(TRUE)
    /\ run.retry + 1 <= run.args.max_retries
    /\ Len(SearchDraws(run)) = run.retry
    /\ \A n \in 1..Len(SearchDraws(run)) : SearchDraws(run)[n].obj = "aggregate"

C4_Witness ==
  /\ run.args.builder = "AggregateIntersecting"
  /\ run.pc = "merge"
  /\ run.retry = 1
  /\ Len(SearchDraws(run)) = 1

\* C5 (as claimed): in every build to a target diameter that returns its
\* aggregate after at least one merge, the planar diameter before the last
\* merge is below the target and the one measured after it is not.
C5_DiameterCrossedByLastMerge ==
  (run.args.builder \in AggregateBuilders /\ ~FixedCount(run)
     /\ Finished(run) /\ run.merges >= 1) =>
    /\ Val(run.before_merge) < Target(run)
    /\ Val(run.measured) >= Target(run)

\* C6: two AggregateIntersecting builds with the same arguments and a seed
\* that is not None, run against the same kernel, sample the same
\* orientations in the same order for the same objects, and go through
\* the same retries, merges and outcome.
C6_Deterministic ==
  ~IsNone(run.args.seed) =>
    /\ run.draws = twin.draws
    /\ run.retry = twin.retry
    /\ run.merges = twin.merges
    /\ run.pc = twin.pc
    /\ run.error = twin.error

C6_Witness ==
  /\ ~IsNone(run.args.seed)
  /\ run.pc = "done"
  /\ twin.pc = "done"
  /\ run.merges = 2
  /\ Len(run.draws) >= 6
  /\ run.draws[1].quat # run.draws[2].quat

\* sin(theta / 2) >= (r1 + r2) / (2 * min(l1, l2)) for two column records,
\* theta the angle between the axes folded into [0, 90] degrees
AxesApart(c1, c2) ==
  SinHalfMilli(AcosAbsDegrees(Dot(c1.k, c2.k))) * 2 * Min(c1.length, c2.length)
    >= (c1.radius + c2.radius) * 1000

\* C7: at every point of a rosette build, any two distinct records of
\* existing_columns are far enough apart.
C7_ColumnsApart ==
  run.args.builder = "HexagonalBulletRosette" =>
    \A m, n \in 1..Len(run.existing_columns) :
      m # n => AxesApart(run.existing_columns[m], run.existing_columns[n])

C7_Witness ==
  /\ run.args.builder = "HexagonalBulletRosette"
  /\ Len(run.existing_columns) = 3
  /\ run.pc = "done"

\* C8 (amended): a bullet for which no rotation is found within MaxAttempts
\* draws is skipped: no solid is made, no axis recorded, no union done, no
\* error raised, and the loop goes on with the next bullet, so every pass
\* of the loop either made one bullet or skipped one; the number of bullets
\* made is between 1 and max(1, num_bullets).
C8_SkipIsNotFatal ==
  (run.args.builder = "HexagonalBulletRosette" /\ run.pc \notin {"new", "constructed"}) =>
    /\ run.pc # "raised"
    /\ run.error = "none"
    /\ run.factory_calls = run.bullets_created
    /\ Len(run.existing_columns) = run.bullets_created
    /\ run.merges <= run.bullets_created - 1
    /\ run.pc = "bullets" => run.i = run.bullets_created + run.skipped
    /\ 1 <= run.bullets_created
    /\ run.bullets_created <= Max(1, run.args.num_bullets)

C8_Witness ==
  /\ run.args.builder = "HexagonalBulletRosette"
  /\ run.pc = "done"
  /\ run.skipped = 1
  /\ run.bullets_created = 2
  /\ run.args.num_bullets = 3
  /\ run.args.shape.radius = 1

\* C8 (as claimed): the number of bullets made is between 1 and num_bullets.
C8_CountWithinRequested ==
  (run.args.builder = "HexagonalBulletRosette" /\ Finished(run)) =>
    /\ 1 <= run.bullets_created
    /\ run.bullets_created <= run.args.num_bullets

\* the position the search starts from, and the distance from the contact
TouchStart(s) == ((s.aggregate_bb + s.monomer_bb) * Scale) \div 2
OffContact(s) == Abs(s.z - Val(s.contact))
SearchOver(s) == s.pc = "touch" /\ s.step = NumSteps /\ ~IsNone(s.contact)
WithinReach(s) == TouchStart(s) - Val(s.contact) <= 2 * s.monomer_bb * Scale

C10_UnionFailureReported ==
  run.pc = "done" => ~run.union_failed

Testing(s) ==
  \/ s.pc = "touch" /\ s.step < NumSteps
  \/ s.pc = "descend" /\ s.step < s.args.binary_search_steps

\* C12: _check_intersection leaves the modifier lists of both solids, the
\* position, the orientations and the meshes as they were before the call
\* (only the count of calls changes), and no modifier of a test is left on
\* a solid at any later point of the build.
C12_TestIsTransient ==
  /\ Testing(run) => [CheckIntersection(run) EXCEPT !.tests = run.tests] = run
  /\ run.error # "KernelError" =>
       run.modifiers = [monomer |-> <<>>, aggregate |-> <<>>]

C12_Witness ==
  /\ Testing(run)
  /\ run.tests = 3
  /\ run.args.builder = "AggregateIntersecting"

\* which event may come right after which within one cycle; a re-rotation
\* of the aggregate between two descents is part of the contact search
Follows(a, b) ==
  \/ a = "factory" /\ b \in {"promote", "sample"}
  \/ a = "promote" /\ b = "check"
  \/ a = "sample" /\ b \in {"sample", "search"}
  \/ a = "search" /\ b \in {"rerotate", "merge"}
  \/ a = "rerotate" /\ b \in {"rerotate", "merge"}
  \/ a = "merge" /\ b = "check"

Events(log) == {log[j] : j \in 1..Len(log)}

\* a log that is empty or holds only the check before the first monomer
BeforeFirst(log) == log \in {<<>>, <<"check">>}

OrderedCycle(log) ==
  \/ BeforeFirst(log)
  \/ /\ log[1] = "factory"
     /\ \A j \in 1..(Len(log) - 1) : Follows(log[j], log[j + 1])

\* the cycle of the first monomer has no merge and no check of its own
CompleteCycle(log) ==
  /\ OrderedCycle(log)
  /\ \/ BeforeFirst(log)
     \/ "promote" \in Events(log)
     \/ log[Len(log)] = "check"

\* C13: within the cycle of a monomer the events come in the order
\* sampling, contact search, merge, termination check; a merge comes only
\* after the search of the same cycle; and when the factory is called for
\* the next monomer, the cycle before it had its merge and its check.
C13_CycleOrder ==
  run.args.builder \in AggregateBuilders =>
    /\ OrderedCycle(run.cycle)
    /\ CompleteCycle(run.last_cycle)
    /\ "merge" \in Events(run.cycle) => "search" \in Events(run.cycle)

C13_Witness ==
  /\ run.args.builder = "AggregateIntersecting"
  /\ run.last_cycle = <<"factory", "sample", "sample", "search", "rerotate", "merge", "check">>
  /\ run.cycle = <<"factory", "sample", "sample", "search", "merge">>

\* C14: a fixed-count build of one monomer calls the factory once,
\* promotes that monomer and returns it; it draws no orientation, runs no
\* intersection test and no search, and merges nothing.
C14_SingleMonomer ==
  (run.args.builder \in AggregateBuilders /\ run.args.num_monomers = Some(1)
     /\ IsNone(run.args.target_diameter)) =>
    /\ run.pc \in {"new", "constructed", "loop", "built", "done"}
    /\ run.factory_calls <= 1
    /\ run.draws = <<>>
    /\ run.tests = 0
    /\ run.merges = 0
    /\ "search" \notin Events(run.cycle)
    /\ run.pc \in {"built", "done"} =>
         /\ run.factory_calls = 1
         /\ run.aggregate = Some(0)
         /\ run.parts = {0}

C14_Witness ==
  /\ run.args.builder = "Aggregate"
  /\ run.args.num_monomers = Some(1)
  /\ run.pc = "done"
  /\ run.aggregate = Some(0)

\* C15 (as claimed): once the first monomer is the aggregate, an
\* orientation has been drawn for it, before a second monomer is asked for.
C15_FirstMonomerPosed ==
  (run.factory_calls = 1 /\ ~IsNone(run.aggregate)) =>
    /\ Len(run.draws) >= 1
    /\ run.draws[1].id = 0

\* C16: with max_retries = 0 a build of AggregateIntersecting that has a
\* second monomer to place makes no descent and no test, raises the
\* RuntimeError of the exhausted search, and has merged nothing.
C16_NoRetriesNoMerge ==
  (run.args.builder = "AggregateIntersecting" /\ run.args.max_retries = 0) =>
    /\ run.merges = 0
    /\ run.tests = 0
    /\ run.pc \notin {"descend", "merge"}
    /\ run.pc = "search" =>
         /\ SearchAttempt(run, 1, Centred(1), 1).pc = "raised"
         /\ SearchAttempt(run, 1, Centred(1), 1).error = "RuntimeError"
    /\ run.factory_calls >= 2 =>
         /\ run.pc \in {"search", "raised"}
         /\ run.pc = "raised" => run.error = "RuntimeError"
         /\ ~run.exported

C16_Witness ==
  /\ run.args.builder = "AggregateIntersecting"
  /\ run.args.max_retries = 0
  /\ run.args.binary_search_steps = 2
  /\ run.factory_calls = 2
  /\ run.pc = "raised"
  /\ run.error = "RuntimeError"

\* the tag a builder's filename starts with
TypeTag(builder) ==
  CASE builder = "Aggregate" -> "aggregate"
    [] builder = "AggregateIntersecting" -> "aggregate_intersecting"
    [] builder = "HexagonalBulletRosette" -> "hexagonal_bullet_rosette"

\* C17 (as claimed): the filename handed to the export holds the type tag,
\* the count or the diameter, the seed if there is one, and the token of
\* the instance.
C17_FilenameHasToken ==
  run.exported =>
    LET f == Val(run.filename) IN
    /\ f.tag = TypeTag(run.args.builder)
    /\ run.args.builder \in AggregateBuilders =>
         /\ f.n = run.args.num_monomers
         /\ ~FixedCount(run) => Val(f.d)[1] = Val(run.args.target_diameter)
         /\ f.s = run.args.seed
    /\ run.args.builder = "HexagonalBulletRosette" => f.n = Some(run.args.num_bullets)
    /\ f.uuid = Some(run.uuid)

\* C18: a build to a target diameter whose aggregate grows with every
\* merge comes to an end: it raises, or it is exported with the last
\* diameter measured at least the target. (An exported build takes no
\* further step, so one exported below the target would never get there.)
C18_DiameterBuildStops ==
  <>(\/ run.pc = "raised"
     \/ /\ run.pc = "done"
        /\ ~IsNone(run.measured)
        /\ Val(run.measured) >= Val(run.args.target_diameter))

C18_Witness ==
  /\ run.pc = "done"
  /\ run.merges = 2
  /\ run.args.target_diameter = Some(3)
  /\ run.measured = Some(3)

C20_StopsAtFirstHit ==
  LET steps == run.args.binary_search_steps
      retries == run.args.max_retries
  IN
  run.args.builder = "AggregateIntersecting" =>
    /\ run.pc = "search" => run.tests = run.retry * steps
    /\ run.pc = "descend" => run.tests = run.retry * steps + run.step
    /\ run.pc = "merge" =>
         /\ run.success = Some(TRUE)
         /\ run.tests = run.retry * steps + run.step + 1
         /\ run.tests <= retries * steps
         /\ Len(run.draws) = run.search_start + run.retry
    /\ (run.pc = "raised" /\ run.error = "RuntimeError") =>
         /\ run.success = Some(FALSE)
         /\ run.tests = retries * steps

C20_Witness ==
  /\ run.args.builder = "AggregateIntersecting"
  /\ run.pc = "merge"
  /\ run.args.binary_search_steps = 2
  /\ run.retry = 1
  /\ run.tests = 3

(* ------------------------------ C21 ----------------------------------- *)

\* where the descent in progress (or the last one made) started from, and
\* its first step
DescentTop(s) == s.agg_z_max + s.monomer_bb * Scale
DescentStep(s) == s.aggregate_bb * Scale + s.monomer_bb * Scale
InDescent(s) == s.pc \in {"descend", "search", "merge", "raised"}

\* C21: every descent of the overlapping-contact search, retries included,
\* starts with the monomer at (aggregate max z + monomer height) and the step
\* at (aggregate height + monomer height); probe i tests the monomer one
\* step below the position before it, the step being the first step halved
\* i-1 times; so the probed positions strictly decrease and the monomer
\* never travels 2*(aggregate height + monomer height) or more.
C21_DescentPositions ==
  InDescent(run) =>
    /\ Len(run.probes) = 0 /\ run.pc = "descend" =>
         /\ run.z = DescentTop(run)
         /\ run.step_size = DescentStep(run)
    /\ Len(run.probes) > 0 =>
         /\ run.probes[1] = DescentTop(run) - DescentStep(run)
         /\ run.z = run.probes[Len(run.probes)]
    /\ \A i \in 1..Len(run.probes) :
         /\ i > 1 => /\ run.probes[i] = run.probes[i - 1] - DescentStep(run) \div Pow2(i - 1)
                     /\ run.probes[i] < run.probes[i - 1]
         /\ DescentTop(run) - run.probes[i] < 2 * DescentStep(run)
    /\ run.pc = "descend" => run.step_size = DescentStep(run) \div Pow2(Len(run.probes))

\* a second descent, after a re-rotation, has made two probes
C21_Witness ==
  /\ run.pc = "descend"
  /\ run.retry = 1
  /\ Len(run.probes) = 2
  /\ run.probes[2] < run.probes[1]
  /\ run.agg_z_max # run.aggregate_bb * Scale

(* ------------------------------ C26 ----------------------------------- *)

\* the aggregate's lowest point, as measured for the descent
AggZMin(s) == s.agg_z_max - s.aggregate_bb * Scale

\* C26: the first probe of every descent tests the monomer with its origin
\* exactly at the aggregate's minimum z, every later probe of the descent
\* tests it strictly below, and no probe tests it above.
C26_ProbesFromFloorDown ==
  InDescent(run) =>
    \A i \in 1..Len(run.probes) :
      /\ i = 1 => run.probes[i] = AggZMin(run)
      /\ i > 1 => run.probes[i] < AggZMin(run)
      /\ run.probes[i] <= AggZMin(run)

\* a descent that has tested at the floor and once below it, the monomer
\* taller than the aggregate
C26_Witness ==
  /\ run.pc = "descend"
  /\ Len(run.probes) = 2
  /\ run.probes[1] = AggZMin(run)
  /\ run.probes[2] < AggZMin(run)
  /\ run.monomer_bb > run.aggregate_bb

(* ------------------------------ C22 ----------------------------------- *)

\* the places in the log where monomer k was given an orientation
MonomerDraws(s, k) ==
  {n \in DOMAIN s.draws : s.draws[n].obj = "monomer" /\ s.draws[n].id = k}

\* C22: in AggregateIntersecting every monomer after the first is given an
\* orientation exactly once, directly before the aggregate's and before the
\* contact search; whatever is sampled inside the search, one sample per
\* completed descent, is an orientation of the aggregate, so the monomer
\* keeps its orientation through all retries.
C22_MonomerOrientedOnce ==
  run.args.builder = "AggregateIntersecting" =>
    /\ \A k \in 1..(run.factory_calls - 1) : Cardinality(MonomerDraws(run, k)) = 1
    /\ (run.pc \in {"search", "descend", "merge"}
          \/ (run.pc = "raised" /\ run.error = "RuntimeError")) =>
         /\ MonomerDraws(run, Val(run.monomer)) = {run.search_start - 1}
         /\ run.draws[run.search_start].obj = "aggregate"
         /\ Len(SearchDraws(run)) = run.retry
         /\ \A n \in 1..Len(SearchDraws(run)) : SearchDraws(run)[n].obj = "aggregate"

\* the third monomer in its second descent
C22_Witness ==
  /\ run.args.builder = "AggregateIntersecting"
  /\ run.pc = "descend"
  /\ run.factory_calls = 3
  /\ run.retry = 1
  /\ Cardinality(MonomerDraws(run, 2)) = 1

(* ------------------------------ C23 ----------------------------------- *)

\* the most intersection tests a fixed-count build of n monomers can make
TestBudget(s) ==
  LET n == Val(s.args.num_monomers)
      per == IF s.args.builder = "Aggregate" THEN NumSteps
             ELSE s.args.max_retries * s.args.binary_search_steps
  IN  IF n >= 1 THEN (n - 1) * per ELSE 0

\* C23: every fixed-count build ends, whatever the intersection tests
\* answer. AggregateIntersecting ends exported or raised with at most n
\* factory calls and at most (n-1)*max_retries*binary_search_steps tests
\* made; Aggregate never exceeds 10*(n-1) tests and n-1 merges, and when it
\* has built its aggregate (n >= 1) it has made exactly that many.
C23_FixedCountTerminates ==
  /\ [](LET n == Val(run.args.num_monomers) IN
        /\ ledger <= TestBudget(run)
        /\ run.factory_calls <= Max(n, 0)
        /\ run.merges <= Max(n - 1, 0)
        /\ (run.args.builder = "Aggregate" /\ n >= 1 /\ run.pc \in {"built", "done"}) =>
             /\ ledger = NumSteps * (n - 1)
             /\ run.merges = n - 1)
  /\ <>(run.pc \in {"done", "raised"})

\* an AggregateIntersecting build of three monomers that used every test
\* of both searches but the last
C23_Witness ==
  /\ run.args.builder = "AggregateIntersecting"
  /\ run.pc = "done"
  /\ Val(run.args.num_monomers) = 3
  /\ run.args.max_retries = 2
  /\ run.args.binary_search_steps = 2
  /\ ledger = 8

(* ------------------------------ C24 ----------------------------------- *)

\* C24: a build to a target diameter that has been exported has made at
\* least one merge, in Aggregate and in AggregateIntersecting alike: the
\* diameter is only ever compared with the target on an aggregate of two
\* monomers or more.
C24_AtLeastOneMerge ==
  (run.args.builder \in AggregateBuilders /\ ~FixedCount(run) /\ run.pc = "done") =>
    /\ run.merges >= 1
    /\ Cardinality(run.parts) >= 2

(* ------------------------------ C25 ----------------------------------- *)

\* C25: with max_retries = 0 the search of AggregateIntersecting returns
\* False with the monomer where the factory left it, no intersection test
\* made and no orientation sampled inside the search, and the build fails
\* with RuntimeError as soon as it has a second monomer to place; a search
\* that succeeds (and so every merge) needs max_retries >= 1 and
\* binary_search_steps >= 1.
C25_SearchNeedsRetriesAndSteps ==
  run.args.builder = "AggregateIntersecting" =>
    /\ (run.args.max_retries = 0 /\ run.success = Some(FALSE)) =>
         /\ run.z = 0
         /\ run.probes = <<>>
         /\ run.tests = 0
         /\ SearchDraws(run) = <<>>
         /\ run.pc = "raised" /\ run.error = "RuntimeError"
    /\ (run.args.max_retries = 0 /\ run.factory_calls >= 2 /\ run.pc # "search") =>
         run.success = Some(FALSE)
    /\ (run.success = Some(TRUE) \/ run.merges >= 1) =>
         /\ run.args.max_retries >= 1
         /\ run.args.binary_search_steps >= 1

\* a build to a target diameter, given descents but no retries, that failed
\* on its second monomer without touching it
C25_Witness ==
  /\ run.args.builder = "AggregateIntersecting"
  /\ ~FixedCount(run)
  /\ run.args.max_retries = 0
  /\ run.args.binary_search_steps = 2
  /\ run.factory_calls = 2
  /\ run.pc = "raised"
  /\ run.z = 0

(* ------------------------------ C27 ----------------------------------- *)

\* C27: the search of Aggregate cannot fail. Each of its 10 iterations
\* makes one test and then moves the monomer, whatever the test answered, so
\* the position the monomer is left at is never a tested one; after the
\* tenth the location is applied and the merge follows, whatever the last
\* test answered. The only errors of an Aggregate build are the rejected
\* configuration and an exception of the kernel.
C27_TouchSearchCannotFail ==
  run.args.builder = "Aggregate" =>
    /\ run.error \in {"none", "ValueError", "KernelError"}
    /\ IsNone(run.success)
    /\ run.pc = "touch" =>
         /\ run.tests = run.step
         /\ run.step <= NumSteps
         /\ run.step < NumSteps =>
              \A hit \in BOOLEAN :
                /\ TouchStep(run, hit).pc = "touch"
                /\ TouchStep(run, hit).tests = run.tests + 1
                /\ TouchStep(run, hit).step = run.step + 1
                /\ TouchStep(run, hit).z # run.z
         /\ run.step = NumSteps =>
              /\ ApplyLocation(run).pc = "merge"
              /\ ApplyLocation(run).monomer = run.monomer
    /\ run.pc = "merge" =>
         /\ ~IsNone(run.monomer)
         /\ AggregateMerge(run, "fused", 1, 1).merges = run.merges + 1
         /\ Val(run.monomer) \in AggregateMerge(run, "unchanged", 1, 1).parts

\* the tenth test of a search has been made
C27_Witness ==
  /\ run.args.builder = "Aggregate"
  /\ run.pc = "touch"
  /\ run.step = NumSteps
  /\ run.tests = 10
  /\ run.merges = 1

(* ------------------------------ C28 ----------------------------------- *)

\* C28: in the rosette's loop the list of recorded columns is as long as
\* the count of bullets created. A bullet is counted and its axis recorded
\* before its union is attempted and neither is taken back, whatever the
\* union does: every bullet made (all of them deleted again after their
\* union) stays counted, and its record stays in the list the later
\* candidates are tested against.
C28_ColumnsMatchCreated ==
  (run.args.builder = "HexagonalBulletRosette"
     /\ run.pc \in {"bullets", "find", "union", "built", "done"}) =>
    /\ Len(run.existing_columns) = run.bullets_created
    /\ run.bullets_created = run.factory_calls
    /\ run.pc = "union" =>
         /\ Val(run.monomer) \notin run.parts
         /\ run.bullets_created = Cardinality(run.deleted) + 2
         /\ \A union \in UnionOutcomes, lost \in BOOLEAN :
              /\ RosetteUnion(run, union, lost).bullets_created = run.bullets_created
              /\ RosetteUnion(run, union, lost).existing_columns = run.existing_columns
    /\ run.pc # "union" => run.bullets_created = Cardinality(run.deleted) + 1

\* a third bullet is being placed after the unions of the second raised:
\* the second is not part of the aggregate, yet counted and recorded
C28_Witness ==
  /\ run.args.builder = "HexagonalBulletRosette"
  /\ run.pc = "find"
  /\ run.i = 2
  /\ run.parts = {0}
  /\ run.union_failed
  /\ run.bullets_created = 2
  /\ Len(run.existing_columns) = 2

(* ------------------------------ C29 ----------------------------------- *)

\* C29: whenever a build has exported, the aggregate that _create_geometry
\* returned is a solid (not None) and it is in the scene that was written.
C29_ExportedAggregateIsSolid ==
  run.pc = "done" =>
    /\ ~IsNone(run.aggregate)
    /\ Val(run.aggregate) \in run.live

(* ------------------------------ C30 ----------------------------------- *)

\* C30: _find_non_overlapping_rotation draws at most max_attempts
\* candidates. While it runs, every candidate drawn so far overlapped a
\* recorded column; it returns (candidate, True) on the draw of the first
\* candidate that overlaps none, and nothing is drawn after that; it returns
\* (the candidate drawn last, False) when max_attempts candidates have been
\* drawn and each overlapped. With no recorded column the first draw
\* succeeds.
C30_FindNonOverlappingRotation ==
  /\ run.attempt <= MaxAttempts
  /\ run.pc = "find" =>
       /\ IsNone(run.success)
       /\ run.attempt = 0 => IsNone(run.rotation_angles)
       /\ run.attempt >= 1 =>
            /\ ~IsNone(run.rotation_angles)
            /\ Overlaps(run, Val(run.rotation_angles))
       /\ run.existing_columns = <<>> => run.attempt = 0
  /\ run.pc = "found" =>
       /\ ~IsNone(run.success)
       /\ ~IsNone(run.rotation_angles)
       /\ Val(run.success) = ~Overlaps(run, Val(run.rotation_angles))
       /\ Val(run.success) => run.attempt \in 1..MaxAttempts
       /\ ~Val(run.success) => run.attempt = MaxAttempts
       /\ run.existing_columns = <<>> => Val(run.success) /\ run.attempt = 1
       /\ ~ENABLED NextFind

\* the search has given up after max_attempts candidates
C30_Witness ==
  /\ run.pc = "found"
  /\ run.success = Some(FALSE)
  /\ run.attempt = 100
  /\ Len(run.existing_columns) = 1

====
